---- MODULE Spec2Model ----
(***************************************************************************)
(* Model of the embedded HTTP server of the draw.io MCP package            *)
(* (packages/mcp-server/src/http-server.ts): the in-memory session store,  *)
(* the request router and the state API that reads and writes the store,   *)
(* the expiry sweep, the port-negotiating listener (startHttpServer /      *)
(* stopHttpServer), and the script of the page the server renders.         *)
(*                                                                         *)
(* Four specifications share the module:                                   *)
(*   Spec          the session store, the state API and the sweeper;       *)
(*   RouterSpec    handleRequest on every method and path, the status it   *)
(*                 writes being recorded;                                  *)
(*   ListenerSpec  startHttpServer / stopHttpServer and the runtime's      *)
(*                 delivery of 'listening' and 'error' events;             *)
(*   ClientSpec    the page's script with the rendering surface, the user  *)
(*                 and the agent around it, over the store and the sweep.  *)
(* The listener shares no mutable state with the rest (handleRequest only  *)
(* reads serverPort to build a base URL), so each specification holds the  *)
(* variables of the parts it leaves out at their initial values.           *)
(***************************************************************************)
EXTENDS Integers, Sequences, FiniteSets, Bags, TLC

(***************************************************************************)
(* Bounds of the model.                                                    *)
(***************************************************************************)
\* writes to one session are cut off once its version reaches this value
MaxVersion == 3
\* the clock advances at most this many steps of TimeStep
MaxTicks == 2
\* POST requests whose bodies may be in flight at the same time
MaxReq == 2
\* calls of startHttpServer made from outside the module
MaxCalls == 2
\* fetch calls of the page in flight at the same time
MaxFetches == 2
\* messages queued in either direction between the page and the surface
MaxMsgs == 1
\* the ports of the model are the last PortWindow ports up to the ceiling,
\* the ceiling itself and the port above it
PortWindow == 2

(***************************************************************************)
(* Program constants.                                                      *)
(***************************************************************************)
MAX_PORT == 6020
SESSION_TTL == 60 * 60 * 1000
\* granularity of the model's clock: one TTL, so that a session can be
\* younger than, exactly as old as, and older than the TTL
TimeStep == SESSION_TTL

(***************************************************************************)
(* JavaScript values.  Strings model strings; the two sentinels below are  *)
(* outside the alphabet of the strings the model sends.                    *)
(***************************************************************************)
UNDEFINED == "<undefined>"
NULL == "<null>"
NullTime == 0 - 1

\* JavaScript truthiness of the values the model handles: "", null and
\* undefined are falsy, every other string is truthy
Falsy(v) == v \in {"", NULL, UNDEFINED}

\* a || b on such values
OrElse(a, b) == IF Falsy(a) THEN b ELSE a

Sessions == {"s1", "s2"}
Xmls == {"", "A", "B"}

VARIABLES
    stateStore,   \* Map sessionId -> SessionState: a function on the keys present
    clock,        \* Date.now(), in steps of TimeStep
    reqs,         \* the bag of POST requests whose 'end' event has not fired yet
    epochWrites,  \* history: writes applied to a session since it last had no record
    seen,         \* history: the version last observed for a session by a client
    lastWrite     \* history: xml sent and version returned by the last write of
                  \* a session, forgotten when the record is evicted

storeVars == <<stateStore, clock, reqs, epochWrites, seen, lastWrite>>

VARIABLES
    server,       \* let server: the http.Server the module holds (an index of
                  \* servers), 0 for null
    serverPort,   \* let serverPort
    servers,      \* every http.Server the module has created, in creation order
    tickQueue,    \* the runtime's queue of 'listening' and 'error' events due
    calls,        \* history: the calls of startHttpServer made from outside
    inUse,        \* environment: ports other processes listen on
    denied,       \* environment: ports whose bind fails with EACCES
    startedPort   \* history: the port the latest 'listening' callback resolved a
                  \* call with, 0 after a call of stopHttpServer

listenerVars ==
    <<server, serverPort, servers, tickQueue, calls, inUse, denied, startedPort>>

VARIABLES
    handled       \* history: the last request handleRequest answered, with the
                  \* status it wrote

routerVars == <<handled>>

VARIABLES
    pageSession,     \* const sessionId of the page's script
    currentVersion,  \* let currentVersion
    isDrawioReady,   \* let isDrawioReady
    pendingXml,      \* let pendingXml
    lastLoadedXml,   \* let lastLoadedXml
    fetches,         \* the bag of the page's fetch calls in flight: requests the
                     \* server has not handled, responses the page has not
    toSurface,       \* messages posted to the iframe and not yet received
    fromSurface,     \* messages posted by the iframe and not yet handled
    surfaceXml,      \* environment: the document the rendering surface shows
    surfaceOrigin,   \* environment: where that document came from: "blank",
                     \* "loaded" by the page, or "edited" by the user since
    initSent,        \* environment: the surface has posted its init event
    maxApplied,      \* history: the highest version the page has loaded or pushed
    owed             \* history: the record of the page's session was written by
                     \* the agent while the page was Ready, and the page has
                     \* not loaded it

clientVars ==
    <<pageSession, currentVersion, isDrawioReady, pendingXml, lastLoadedXml,
      fetches, toSurface, fromSurface, surfaceXml, surfaceOrigin, initSent,
      maxApplied, owed>>

vars == <<storeVars, listenerVars, routerVars, clientVars>>

Now == clock * TimeStep

(***************************************************************************)
(* Session store: getState, setState.                                      *)
(***************************************************************************)
\* stateStore.get(sessionId)?.version || 0
PriorVersion(store, sessionId) ==
    IF sessionId \in DOMAIN store THEN store[sessionId].version ELSE 0

\* faulty variant, for sensitivity of the properties: the increment is forgotten for a session that has a record
NewVersion_NoIncrement(store, sessionId) ==
    IF sessionId \in DOMAIN store THEN store[sessionId].version ELSE 1

\* const newVersion = (existing?.version || 0) + 1
NewVersion(store, sessionId) == PriorVersion(store, sessionId) + 1

\* stateStore.set(sessionId, {xml, version: newVersion, lastUpdated: new Date()})
setState(store, sessionId, xml, date) ==
    [k \in DOMAIN store \cup {sessionId} |->
        IF k = sessionId
        THEN [xml |-> xml, version |-> NewVersion(store, sessionId), lastUpdated |-> date]
        ELSE store[k]]

(***************************************************************************)
(* Expiry sweep.                                                           *)
(***************************************************************************)
\* faulty variant, for sensitivity of the properties: a session exactly as old as the TTL is evicted too
Expired_AtBoundary(state, date) == date - state.lastUpdated >= SESSION_TTL

\* if (now - state.lastUpdated.getTime() > SESSION_TTL)
Expired(state, date) == date - state.lastUpdated > SESSION_TTL

\* the sessions one run of cleanupExpiredSessions deletes
ExpiredSessions(store, date) == {k \in DOMAIN store : Expired(store[k], date)}

\* the store after the for-loop of cleanupExpiredSessions
cleanupExpiredSessions(store, date) ==
    [k \in DOMAIN store \ ExpiredSessions(store, date) |-> store[k]]

(***************************************************************************)
(* Request bodies.  A body is the concatenation of the chunks received so  *)
(* far (body += chunk); a chunk is a piece of JSON text, written           *)
(* <<kind, value>>:                                                        *)
(*    <<"{sid", s>>    {"sessionId":"s"                                    *)
(*    <<",xml}", x>>   ,"xml":"x"}                                         *)
(*    <<"{xml}", x>>   {"xml":"x"}                                         *)
(*    <<"null", "">>   null                                                *)
(***************************************************************************)
ChunkH(s) == <<"{sid", s>>
ChunkX(x) == <<",xml}", x>>
ChunkO(x) == <<"{xml}", x>>
ChunkN == <<"null", "">>

\* const { sessionId, xml } = JSON.parse(body): throws on text that is not
\* JSON (SyntaxError) and on the JSON text null (TypeError of the
\* destructuring); a key the object lacks comes out undefined
ParseBody(body) ==
    IF Len(body) = 2 /\ body[1][1] = "{sid" /\ body[2][1] = ",xml}"
    THEN [throws |-> FALSE, sessionId |-> body[1][2], xml |-> body[2][2]]
    ELSE IF Len(body) = 1 /\ body[1][1] = "{xml}"
    THEN [throws |-> FALSE, sessionId |-> UNDEFINED, xml |-> body[1][2]]
    ELSE [throws |-> TRUE, sessionId |-> UNDEFINED, xml |-> UNDEFINED]

\* the chunks a client of the model may send after the chunks in body.  The
\* texts clients send are: {"sessionId":"s1","xml":x} for every x in Xmls,
\* {"sessionId":"s2","xml":"A"}, {"sessionId":"","xml":"A"}, {"xml":"A"},
\* null, and every prefix of these texts (a client may end the body early),
\* the empty body included
NextChunks(body) ==
    IF body = <<>>
    THEN {ChunkH(s) : s \in Sessions \cup {""}} \cup {ChunkO("A"), ChunkN}
    ELSE IF body = <<ChunkH("s1")>> THEN {ChunkX(x) : x \in Xmls}
    ELSE IF body = <<ChunkH("s2")>> THEN {ChunkX("A")}
    ELSE IF body = <<ChunkH("")>> THEN {ChunkX("A")}
    ELSE {}

(***************************************************************************)
(* HTTP responses of the state API.                                        *)
(***************************************************************************)
NoResp ==
    [kind |-> "none", status |-> 0, error |-> "", session |-> "",
     xml |-> NULL, version |-> 0, lastUpdated |-> NullTime]

\* res.writeHead(400, ...); res.end(JSON.stringify({ error }))
ErrorResp(kind, error) == [NoResp EXCEPT !.kind = kind, !.status = 400, !.error = error]

\* GET: JSON.stringify({xml: state?.xml || null, version: state?.version || 0,
\*                      lastUpdated: state?.lastUpdated?.toISOString() || null})
\* (an ISO-8601 string carries the millisecond timestamp unchanged)
GetResp(store, sessionId) ==
    IF sessionId \in DOMAIN store
    THEN [NoResp EXCEPT !.kind = "read", !.status = 200, !.session = sessionId,
                        !.xml = OrElse(store[sessionId].xml, NULL),
                        !.version = store[sessionId].version,
                        !.lastUpdated = store[sessionId].lastUpdated]
    ELSE [NoResp EXCEPT !.kind = "read", !.status = 200, !.session = sessionId]

\* POST: JSON.stringify({ success: true, version })
WriteResp(sessionId, version) ==
    [NoResp EXCEPT !.kind = "write", !.status = 200, !.session = sessionId,
                   !.version = version]

\* a request in flight: let body = ""
NewReq == [body |-> <<>>]

NoWrite == [set |-> FALSE, xml |-> NULL, version |-> 0]

(***************************************************************************)
(* The state API: handleStateApi.                                          *)
(***************************************************************************)
\* faulty variant, for sensitivity of the properties: the handler writes before it looks at sessionId
PostOutcome_WriteFirst(store, body, date) ==
    LET parsed == ParseBody(body) IN
    IF parsed.throws
    THEN [resp |-> ErrorResp("write", "Invalid JSON"), store |-> store, wrote |-> FALSE]
    ELSE IF Falsy(parsed.sessionId)
    THEN [resp |-> ErrorResp("write", "sessionId required"),
          store |-> setState(store, parsed.sessionId, parsed.xml, date),
          wrote |-> FALSE]
    ELSE [resp |-> WriteResp(parsed.sessionId, NewVersion(store, parsed.sessionId)),
          store |-> setState(store, parsed.sessionId, parsed.xml, date),
          wrote |-> TRUE]

\* what the 'end' handler of a POST does with the body it has accumulated:
\* the response, and the store it leaves
PostOutcome(store, body, date) ==
    LET parsed == ParseBody(body) IN
    IF parsed.throws
    THEN [resp |-> ErrorResp("write", "Invalid JSON"), store |-> store, wrote |-> FALSE]
    ELSE IF Falsy(parsed.sessionId)
    THEN [resp |-> ErrorResp("write", "sessionId required"), store |-> store, wrote |-> FALSE]
    ELSE [resp |-> WriteResp(parsed.sessionId, NewVersion(store, parsed.sessionId)),
          store |-> setState(store, parsed.sessionId, parsed.xml, date),
          wrote |-> TRUE]

\* the answer to a GET with query parameter sessionId = q (NULL: the
\* parameter is absent, searchParams.get returns null)
GetOutcome(store, q) ==
    IF Falsy(q) THEN ErrorResp("read", "sessionId required") ELSE GetResp(store, q)

\* faulty variant, for sensitivity of the properties: a read refreshes the session's lastUpdated
GetStateApi_Touch(q) ==
    /\ stateStore' = [k \in DOMAIN stateStore |->
                         IF k = q THEN [stateStore[k] EXCEPT !.lastUpdated = Now]
                         ELSE stateStore[k]]
    /\ UNCHANGED <<clock, reqs, epochWrites, seen, lastWrite>>
    /\ UNCHANGED <<listenerVars, clientVars>>

\* GET: answers and changes nothing; the client that reads a version other
\* than the sentinel 0 has observed it
GetStateApi(q) ==
    /\ seen' = LET out == GetOutcome(stateStore, q) IN
               IF out.status = 200 /\ out.version # 0
               THEN [seen EXCEPT ![q] = out.version]
               ELSE seen
    /\ UNCHANGED <<stateStore, clock, reqs, epochWrites, lastWrite>>
    /\ UNCHANGED <<listenerVars, clientVars>>

\* POST: the handler returns after registering the 'data' and 'end' listeners
PostArrive ==
    /\ BagCardinality(reqs) < MaxReq
    /\ reqs' = reqs (+) SetToBag({NewReq})
    /\ UNCHANGED <<stateStore, clock, epochWrites, seen, lastWrite>>
    /\ UNCHANGED <<listenerVars, clientVars>>

\* req.on("data", (chunk) => { body += chunk })
PostData(rq, chunk) ==
    /\ reqs' = (reqs (-) SetToBag({rq}))
                (+) SetToBag({[body |-> Append(rq.body, chunk)]})
    /\ UNCHANGED <<stateStore, clock, epochWrites, seen, lastWrite>>
    /\ UNCHANGED <<listenerVars, routerVars, clientVars>>

\* req.on("end", () => { ... }): runs to completion
PostEnd(rq) ==
    /\ LET out == PostOutcome(stateStore, rq.body, Now)
           s == out.resp.session
       IN /\ out.wrote => out.resp.version <= MaxVersion
          /\ stateStore' = out.store
          /\ epochWrites' = IF out.wrote THEN [epochWrites EXCEPT ![s] = @ + 1]
                            ELSE epochWrites
          /\ seen' = IF out.wrote THEN [seen EXCEPT ![s] = out.resp.version] ELSE seen
          /\ lastWrite' = IF out.wrote
                          THEN [lastWrite EXCEPT ![s] =
                                  [set |-> TRUE, xml |-> ParseBody(rq.body).xml,
                                   version |-> out.resp.version]]
                          ELSE lastWrite
    /\ reqs' = reqs (-) SetToBag({rq})
    /\ UNCHANGED clock
    /\ UNCHANGED <<listenerVars, routerVars, clientVars>>

\* setInterval(cleanupExpiredSessions, 5 * 60 * 1000): one run of the sweep
Sweep ==
    /\ stateStore' = cleanupExpiredSessions(stateStore, Now)
    /\ epochWrites' = [s \in Sessions |->
                         IF s \in ExpiredSessions(stateStore, Now) THEN 0
                         ELSE epochWrites[s]]
    /\ lastWrite' = [s \in Sessions |->
                       IF s \in ExpiredSessions(stateStore, Now) THEN NoWrite
                       ELSE lastWrite[s]]
    /\ UNCHANGED <<clock, reqs, seen>>
    /\ UNCHANGED <<listenerVars, routerVars, clientVars>>

\* time passes
Tick ==
    /\ clock < MaxTicks
    /\ clock' = clock + 1
    /\ UNCHANGED <<stateStore, reqs, epochWrites, seen, lastWrite>>
    /\ UNCHANGED <<listenerVars, routerVars, clientVars>>

(***************************************************************************)
(* The request router: handleRequest.                                      *)
(***************************************************************************)
Methods == {"GET", "POST", "OPTIONS", "PUT"}
PagePaths == {"/", "/index.html"}
StatePaths == {"/api/state", "/api/mcp/state"}
HealthPaths == {"/api/health", "/api/mcp/health"}
Paths == PagePaths \cup StatePaths \cup HealthPaths \cup {"/favicon.ico"}

\* the value of the query parameter a handler reads (sessionId on the state
\* paths, mcp on the page paths); NULL when the URL does not carry it
Queries == Sessions \cup {NULL}

\* the branch of handleRequest a request takes
Route(method, path) ==
    IF method = "OPTIONS" THEN "preflight"
    ELSE IF path \in PagePaths THEN "serveHtml"
    ELSE IF path \in StatePaths THEN "handleStateApi"
    ELSE IF path \in HealthPaths THEN "health"
    ELSE "notFound"

\* the status the handler writes before it returns; 0 when it returns
\* without answering (a POST on a state path is answered by its 'end'
\* handler, see PostOutcome)
StatusWritten(method, path, q, store) ==
    LET r == Route(method, path) IN
    IF r = "preflight" THEN 204
    ELSE IF r = "serveHtml" THEN 200
    ELSE IF r = "handleStateApi"
    THEN IF method = "GET" THEN GetOutcome(store, q).status
         ELSE IF method = "POST" THEN 0
         ELSE 405
    ELSE IF r = "health" THEN 200
    ELSE 404

\* const sessionId = url.searchParams.get("mcp") || "": the session id
\* serveHtml writes into the page's script
PageSessionId(mcp) == OrElse(mcp, "")

NoRequest == [method |-> "", path |-> "", status |-> 0]

Request(method, path, q) == [method |-> method, path |-> path, q |-> q]

\* the requests clients of the store send: reads of each session and
\* without sessionId, a write, the page of a session and a health probe
StoreRequests ==
    {Request("GET", "/api/state", q) : q \in Queries}
        \cup {Request("POST", "/api/mcp/state", NULL),
              Request("GET", "/", "s1"),
              Request("GET", "/api/health", NULL)}

\* what handleRequest does to the module's state: only the state API on a
\* state path touches it
Dispatch(method, path, q) ==
    IF Route(method, path) = "handleStateApi" /\ method = "GET"
    THEN GetStateApi(q)
    ELSE IF Route(method, path) = "handleStateApi" /\ method = "POST"
    THEN PostArrive
    ELSE UNCHANGED <<storeVars, listenerVars, clientVars>>

\* handleRequest(req, res)
HandleRequest(method, path, q) ==
    /\ Dispatch(method, path, q)
    /\ UNCHANGED routerVars

\* handleRequest(req, res), the status it writes being recorded
HandleRequestAnswered(method, path, q) ==
    /\ Dispatch(method, path, q)
    /\ handled' = [method |-> method, path |-> path,
                   status |-> StatusWritten(method, path, q, stateStore)]

(***************************************************************************)
(* The page's script (getHtmlPage) and its environment: the rendering      *)
(* surface in the iframe, the user who edits in it, and the agent that     *)
(* writes to the page's session through the state API.                     *)
(*                                                                         *)
(* A fetch is in flight from the call to the moment its response is        *)
(* handled; the server handles requests in any order and responses arrive  *)
(* in any order.  Messages between the page and the iframe are delivered   *)
(* in the order they were posted.                                          *)
(***************************************************************************)
\* the documents the user makes by editing
Edits == {"A", "B"}

\* the session the agent writes to
AgentSession == "s1"

PollReq == [kind |-> "pollReq", xml |-> NULL, version |-> 0]
PollResp(xml, version) == [kind |-> "pollResp", xml |-> xml, version |-> version]
PushReq(xml) == [kind |-> "pushReq", xml |-> xml, version |-> 0]
PushResp(xml, version) == [kind |-> "pushResp", xml |-> xml, version |-> version]

\* a message of the surface; echo is history: the document it carries was
\* loaded by the page and not edited since
Msg(event, xml, echo) == [event |-> event, xml |-> xml, echo |-> echo]

Max(a, b) == IF a >= b THEN a ELSE b

\* JSON.stringify({ sessionId, xml }) as the request body the server reads
PushBody(sessionId, xml) == <<ChunkH(sessionId), ChunkX(xml)>>

\* faulty variant, for sensitivity of the properties: the load is posted whether or not the surface is ready
loadDiagram_Ungated(ready, xml, pending, lastLoaded, posted) ==
    [pendingXml |-> pending, lastLoadedXml |-> xml, toSurface |-> Append(posted, xml)]

\* loadDiagram(xml): the values it leaves in pendingXml and lastLoadedXml,
\* and the messages posted to the iframe
loadDiagram(ready, xml, pending, lastLoaded, posted) ==
    IF ~ready
    THEN [pendingXml |-> xml, lastLoadedXml |-> lastLoaded, toSurface |-> posted]
    ELSE [pendingXml |-> pending, lastLoadedXml |-> xml, toSurface |-> Append(posted, xml)]

\* the test of pollState on a response
PollAccepts(r) == r.version # 0 /\ r.version > currentVersion /\ ~Falsy(r.xml)

\* whether handleDrawioMessage calls pushState for the message
CallsPushState(msg) ==
    IF msg.event \in {"save", "autosave"}
    THEN ~Falsy(msg.xml) /\ msg.xml # lastLoadedXml
    ELSE msg.event = "export" /\ ~Falsy(msg.xml)

\* setInterval(pollState, 2000), and the call at load: pollState up to its
\* fetch
PollState ==
    /\ ~Falsy(pageSession)
    /\ BagCardinality(fetches) < MaxFetches
    /\ fetches' = fetches (+) SetToBag({PollReq})
    /\ UNCHANGED <<pageSession, currentVersion, isDrawioReady, pendingXml,
                   lastLoadedXml, toSurface, fromSurface, surfaceXml,
                   surfaceOrigin, initSent, maxApplied, owed>>
    /\ UNCHANGED <<storeVars, listenerVars, routerVars>>

\* the server handles the GET of a poll
ServeGet ==
    /\ PollReq \in BagToSet(fetches)
    /\ LET out == GetOutcome(stateStore, pageSession) IN
       fetches' = (fetches (-) SetToBag({PollReq}))
                    (+) SetToBag({PollResp(out.xml, out.version)})
    /\ UNCHANGED <<pageSession, currentVersion, isDrawioReady, pendingXml,
                   lastLoadedXml, toSurface, fromSurface, surfaceXml,
                   surfaceOrigin, initSent, maxApplied, owed>>
    /\ UNCHANGED <<storeVars, listenerVars, routerVars>>

\* pollState after its fetch: the response r has arrived
PollResponse(r) ==
    /\ r.kind = "pollResp"
    /\ fetches' = fetches (-) SetToBag({r})
    /\ IF PollAccepts(r)
       THEN LET l == loadDiagram(isDrawioReady, r.xml, pendingXml, lastLoadedXml, toSurface) IN
            /\ Len(l.toSurface) <= MaxMsgs
            /\ currentVersion' = r.version
            /\ pendingXml' = l.pendingXml
            /\ lastLoadedXml' = l.lastLoadedXml
            /\ toSurface' = l.toSurface
            /\ maxApplied' = Max(maxApplied, r.version)
            /\ owed' = (owed /\ ~(r.xml = GetOutcome(stateStore, pageSession).xml
                                  /\ r.version = GetOutcome(stateStore, pageSession).version))
       ELSE UNCHANGED <<currentVersion, pendingXml, lastLoadedXml, toSurface,
                        maxApplied, owed>>
    /\ UNCHANGED <<pageSession, isDrawioReady, fromSurface, surfaceXml,
                   surfaceOrigin, initSent>>
    /\ UNCHANGED <<storeVars, listenerVars, routerVars>>

\* the server handles the POST of a push: body and 'end' handler
ServePost(r) ==
    /\ r.kind = "pushReq"
    /\ LET out == PostOutcome(stateStore, PushBody(pageSession, r.xml), Now) IN
       /\ out.wrote
       /\ out.resp.version <= MaxVersion
       /\ stateStore' = out.store
       /\ fetches' = (fetches (-) SetToBag({r}))
                       (+) SetToBag({PushResp(r.xml, out.resp.version)})
    /\ owed' = FALSE
    /\ UNCHANGED <<pageSession, currentVersion, isDrawioReady, pendingXml,
                   lastLoadedXml, toSurface, fromSurface, surfaceXml,
                   surfaceOrigin, initSent, maxApplied>>
    /\ UNCHANGED <<clock, reqs, epochWrites, seen, lastWrite>>
    /\ UNCHANGED <<listenerVars, routerVars>>

\* pushState after its fetch: the response r has arrived, response.ok
PushResponse(r) ==
    /\ r.kind = "pushResp"
    /\ fetches' = fetches (-) SetToBag({r})
    /\ currentVersion' = r.version
    /\ lastLoadedXml' = r.xml
    /\ maxApplied' = Max(maxApplied, r.version)
    /\ UNCHANGED <<pageSession, isDrawioReady, pendingXml, toSurface, fromSurface,
                   surfaceXml, surfaceOrigin, initSent, owed>>
    /\ UNCHANGED <<storeVars, listenerVars, routerVars>>

\* a fetch fails (the request or its response is lost): the catch block
\* logs and nothing else happens
FetchFails(r) ==
    /\ fetches' = fetches (-) SetToBag({r})
    /\ UNCHANGED <<pageSession, currentVersion, isDrawioReady, pendingXml,
                   lastLoadedXml, toSurface, fromSurface, surfaceXml,
                   surfaceOrigin, initSent, maxApplied, owed>>
    /\ UNCHANGED <<storeVars, listenerVars, routerVars>>

\* window 'message' listener, handleDrawioMessage: the message at the head
\* of the queue
HandleDrawioMessage ==
    /\ fromSurface # <<>>
    /\ LET msg == Head(fromSurface) IN
       IF msg.event = "init"
       THEN /\ isDrawioReady' = TRUE
            /\ IF ~Falsy(pendingXml)
               THEN LET l == loadDiagram(TRUE, pendingXml, pendingXml, lastLoadedXml, toSurface) IN
                    /\ Len(l.toSurface) <= MaxMsgs
                    /\ lastLoadedXml' = l.lastLoadedXml
                    /\ toSurface' = l.toSurface
                    /\ pendingXml' = NULL
               ELSE UNCHANGED <<pendingXml, lastLoadedXml, toSurface>>
            /\ UNCHANGED fetches
       ELSE /\ IF CallsPushState(msg) /\ ~Falsy(pageSession)
               THEN /\ BagCardinality(fetches) < MaxFetches
                    /\ fetches' = fetches (+) SetToBag({PushReq(msg.xml)})
               ELSE UNCHANGED fetches
            /\ UNCHANGED <<isDrawioReady, pendingXml, lastLoadedXml, toSurface>>
    /\ fromSurface' = Tail(fromSurface)
    /\ UNCHANGED <<pageSession, currentVersion, surfaceXml, surfaceOrigin,
                   initSent, maxApplied, owed>>
    /\ UNCHANGED <<storeVars, listenerVars, routerVars>>

\* the surface has initialised and posts {event: "init"}
SurfaceInit ==
    /\ ~initSent
    /\ initSent' = TRUE
    /\ fromSurface' = Append(fromSurface, Msg("init", NULL, FALSE))
    /\ UNCHANGED <<pageSession, currentVersion, isDrawioReady, pendingXml,
                   lastLoadedXml, fetches, toSurface, surfaceXml, surfaceOrigin,
                   maxApplied, owed>>
    /\ UNCHANGED <<storeVars, listenerVars, routerVars>>

\* the surface receives {action: "load", xml} and shows the document
SurfaceLoad ==
    /\ toSurface # <<>>
    /\ surfaceXml' = Head(toSurface)
    /\ surfaceOrigin' = "loaded"
    /\ toSurface' = Tail(toSurface)
    /\ UNCHANGED <<pageSession, currentVersion, isDrawioReady, pendingXml,
                   lastLoadedXml, fetches, fromSurface, initSent, maxApplied, owed>>
    /\ UNCHANGED <<storeVars, listenerVars, routerVars>>

\* the user edits the document; the surface, loaded with autosave: 1, posts
\* an autosave event that carries it
UserEdit(xml) ==
    /\ initSent
    /\ xml # surfaceXml
    /\ Len(fromSurface) < MaxMsgs
    /\ surfaceXml' = xml
    /\ surfaceOrigin' = "edited"
    /\ fromSurface' = Append(fromSurface, Msg("autosave", xml, FALSE))
    /\ UNCHANGED <<pageSession, currentVersion, isDrawioReady, pendingXml,
                   lastLoadedXml, fetches, toSurface, initSent, maxApplied, owed>>
    /\ UNCHANGED <<storeVars, listenerVars, routerVars>>

\* the surface reports the document it shows in a save, autosave or export
\* event
SurfaceReport(event) ==
    /\ initSent
    /\ Len(fromSurface) < MaxMsgs
    /\ fromSurface' = Append(fromSurface, Msg(event, surfaceXml, surfaceOrigin = "loaded"))
    /\ UNCHANGED <<pageSession, currentVersion, isDrawioReady, pendingXml,
                   lastLoadedXml, fetches, toSurface, surfaceXml, surfaceOrigin,
                   initSent, maxApplied, owed>>
    /\ UNCHANGED <<storeVars, listenerVars, routerVars>>

\* the agent POSTs {sessionId, xml} to the state API: body and 'end' handler
AgentWrite(xml) ==
    /\ LET out == PostOutcome(stateStore, PushBody(AgentSession, xml), Now) IN
       /\ out.wrote
       /\ out.resp.version <= MaxVersion
       /\ stateStore' = out.store
       /\ owed' = (isDrawioReady /\ pageSession = AgentSession)
    /\ UNCHANGED <<pageSession, currentVersion, isDrawioReady, pendingXml,
                   lastLoadedXml, fetches, toSurface, fromSurface, surfaceXml,
                   surfaceOrigin, initSent, maxApplied>>
    /\ UNCHANGED <<clock, reqs, epochWrites, seen, lastWrite>>
    /\ UNCHANGED <<listenerVars, routerVars>>

(***************************************************************************)
(* The port-negotiating listener: startHttpServer, stopHttpServer.         *)
(*                                                                         *)
(* server.listen(port, cb) binds at once (no host is given, so no lookup   *)
(* precedes the bind) and the runtime reports the result on a later tick:  *)
(* 'listening' if the bind succeeded and the handle is still open when the *)
(* tick runs, 'error' if it failed.  server.close() releases the handle.   *)
(* Ticks run in the order they were queued.                                *)
(***************************************************************************)
Ports == (MAX_PORT - PortWindow)..(MAX_PORT + 1)

\* let serverPort: number = 6002, and the default of the port parameter
DefaultPort == 6002

\* ports held by listeners this module created
HeldPorts(srvs) == {srvs[i].port : i \in {j \in DOMAIN srvs : srvs[j].held}}

\* the result of the bind server.listen(port) makes
BindResult(port, srvs) ==
    IF port \in denied THEN "EACCES"
    ELSE IF port \in inUse \cup HeldPorts(srvs) THEN "EADDRINUSE"
    ELSE "ok"

\* server = http.createServer(handleRequest); server.on("error", ...);
\* server.listen(port, ...): the server object and the event the bind queues
NewServer(port, call, srvs) ==
    LET r == BindResult(port, srvs) IN
    [port |-> port, call |-> call, held |-> (r = "ok"),
     event |-> IF r = "ok" THEN "listening" ELSE "error",
     err |-> IF r = "ok" THEN "" ELSE r]

\* faulty variant, for sensitivity of the properties: every bind error is retried on the next port
Retryable_Any(err) == TRUE

\* if (err.code === "EADDRINUSE")
Retryable(err) == err = "EADDRINUSE"

\* faulty variant, for sensitivity of the properties: the ceiling test is off by one
AtCeiling_Late(port) == port > MAX_PORT

\* if (port >= MAX_PORT)
AtCeiling(port) == port >= MAX_PORT

\* new Error(`No available ports in range 6002-${MAX_PORT}`)
NoPortsError == "No available ports in range"

\* a call from outside: its argument, the ports it has bound or tried to
\* bind, and how it settled.  The other fields are history: immediate, the
\* call was answered by the if (server) shortcut; inUseAtCall, a bind of
\* pref would have met EADDRINUSE when the call was made; startedAtCall,
\* the value of startedPort then; boundAtSettle, a listener of the module
\* held the port the call resolved with when it resolved
NewCall(port, immediate) ==
    [pref |-> port,
     immediate |-> immediate,
     outcome |-> IF immediate THEN "resolved" ELSE "pending",
     port |-> IF immediate THEN serverPort ELSE 0,
     error |-> "",
     tried |-> IF immediate THEN <<>> ELSE <<port>>,
     inUseAtCall |-> (port \in inUse \cup HeldPorts(servers) /\ port \notin denied),
     startedAtCall |-> startedPort,
     boundAtSettle |-> (immediate /\ serverPort \in HeldPorts(servers))]

\* startHttpServer(port), called from outside the module
StartHttpServer(port) ==
    /\ Len(calls) < MaxCalls
    /\ IF server # 0
       THEN \* resolve(serverPort); return
            /\ calls' = Append(calls, NewCall(port, TRUE))
            /\ UNCHANGED <<server, serverPort, servers, tickQueue>>
       ELSE /\ calls' = Append(calls, NewCall(port, FALSE))
            /\ serverPort' = port
            /\ servers' = Append(servers, NewServer(port, Len(calls) + 1, servers))
            /\ server' = Len(servers) + 1
            /\ tickQueue' = Append(tickQueue, Len(servers) + 1)
    /\ UNCHANGED <<inUse, denied, startedPort>>
    /\ UNCHANGED <<storeVars, routerVars, clientVars>>

\* the 'listening' tick of the server at the head of the queue: the callback
\* of server.listen runs unless the handle was closed in the meantime
OnListening ==
    /\ tickQueue # <<>>
    /\ LET i == Head(tickQueue)
           s == servers[i]
       IN /\ s.event = "listening"
          /\ tickQueue' = Tail(tickQueue)
          /\ servers' = [servers EXCEPT ![i].event = "none"]
          /\ IF s.held
             THEN /\ serverPort' = s.port
                  /\ calls' = [calls EXCEPT ![s.call].outcome = "resolved",
                                            ![s.call].port = s.port,
                                            ![s.call].boundAtSettle = TRUE]
                  /\ startedPort' = s.port
             ELSE UNCHANGED <<serverPort, calls, startedPort>>
    /\ UNCHANGED <<server, inUse, denied>>
    /\ UNCHANGED <<storeVars, routerVars, clientVars>>

\* the 'error' tick of the server at the head of the queue: the handler
\* registered by server.on("error", ...)
OnError ==
    /\ tickQueue # <<>>
    /\ LET i == Head(tickQueue)
           s == servers[i]
           done == [servers EXCEPT ![i].event = "none"]
       IN /\ s.event = "error"
          /\ IF Retryable(s.err) /\ ~AtCeiling(s.port)
             THEN \* server = null; startHttpServer(port + 1).then(resolve).catch(reject)
                  /\ serverPort' = s.port + 1
                  /\ servers' = Append(done, NewServer(s.port + 1, s.call, done))
                  /\ server' = Len(servers) + 1
                  /\ tickQueue' = Append(Tail(tickQueue), Len(servers) + 1)
                  /\ calls' = [calls EXCEPT ![s.call].tried = Append(@, s.port + 1)]
             ELSE \* reject(new Error("No available ports ...")) or reject(err)
                  /\ calls' = [calls EXCEPT
                                 ![s.call].outcome = "rejected",
                                 ![s.call].error =
                                     IF Retryable(s.err) THEN NoPortsError ELSE s.err]
                  /\ servers' = done
                  /\ tickQueue' = Tail(tickQueue)
                  /\ UNCHANGED <<server, serverPort>>
    /\ UNCHANGED <<inUse, denied, startedPort>>
    /\ UNCHANGED <<storeVars, routerVars, clientVars>>

\* stopHttpServer()
StopHttpServer ==
    /\ IF server # 0
       THEN /\ servers' = [servers EXCEPT ![server].held = FALSE]
            /\ server' = 0
       ELSE UNCHANGED <<server, servers>>
    /\ startedPort' = 0
    /\ UNCHANGED <<serverPort, tickQueue, calls, inUse, denied>>
    /\ UNCHANGED <<storeVars, routerVars, clientVars>>

\* getServerPort()
getServerPort == serverPort

(***************************************************************************)
(* Specifications.                                                         *)
(***************************************************************************)
\* the store is empty, no request is in flight, and no port is troubled: the
\* state after the module is loaded
Init ==
    /\ stateStore = <<>>
    /\ clock = 0
    /\ reqs = EmptyBag
    /\ epochWrites = [s \in Sessions |-> 0]
    /\ seen = [s \in Sessions |-> 0]
    /\ lastWrite = [s \in Sessions |-> NoWrite]
    /\ server = 0
    /\ serverPort = DefaultPort
    /\ servers = <<>>
    /\ tickQueue = <<>>
    /\ calls = <<>>
    /\ inUse = {}
    /\ denied = {}
    /\ startedPort = 0
    /\ handled = NoRequest
    /\ pageSession = ""
    /\ currentVersion = 0
    /\ isDrawioReady = FALSE
    /\ pendingXml = NULL
    /\ lastLoadedXml = NULL
    /\ fetches = EmptyBag
    /\ toSurface = <<>>
    /\ fromSurface = <<>>
    /\ surfaceXml = ""
    /\ surfaceOrigin = "blank"
    /\ initSent = FALSE
    /\ maxApplied = 0
    /\ owed = FALSE

Next ==
    \/ \E rq \in StoreRequests : HandleRequest(rq.method, rq.path, rq.q)
    \/ \E rq \in BagToSet(reqs) : \E chunk \in NextChunks(rq.body) : PostData(rq, chunk)
    \/ \E rq \in BagToSet(reqs) : PostEnd(rq)
    \/ Sweep
    \/ Tick

Spec == Init /\ [][Next]_vars

\* the state after a page was served and its script has run its first
\* statements: for a URL without mcp parameter the script has no session
ClientInit ==
    /\ stateStore = <<>>
    /\ clock = 0
    /\ reqs = EmptyBag
    /\ epochWrites = [s \in Sessions |-> 0]
    /\ seen = [s \in Sessions |-> 0]
    /\ lastWrite = [s \in Sessions |-> NoWrite]
    /\ server = 0
    /\ serverPort = DefaultPort
    /\ servers = <<>>
    /\ tickQueue = <<>>
    /\ calls = <<>>
    /\ inUse = {}
    /\ denied = {}
    /\ startedPort = 0
    /\ handled = NoRequest
    /\ pageSession \in {PageSessionId(mcp) : mcp \in {NULL, AgentSession}}
    /\ currentVersion = 0
    /\ isDrawioReady = FALSE
    /\ pendingXml = NULL
    /\ lastLoadedXml = NULL
    /\ fetches = EmptyBag
    /\ toSurface = <<>>
    /\ fromSurface = <<>>
    /\ surfaceXml = ""
    /\ surfaceOrigin = "blank"
    /\ initSent = FALSE
    /\ maxApplied = 0
    /\ owed = FALSE

ClientNext ==
    \/ PollState
    \/ ServeGet
    \/ \E r \in BagToSet(fetches) : PollResponse(r)
    \/ \E r \in BagToSet(fetches) : ServePost(r)
    \/ \E r \in BagToSet(fetches) : PushResponse(r)
    \/ \E r \in BagToSet(fetches) : FetchFails(r)
    \/ HandleDrawioMessage
    \/ SurfaceInit
    \/ SurfaceLoad
    \/ \E xml \in Edits : UserEdit(xml)
    \/ \E event \in {"save", "autosave", "export"} : SurfaceReport(event)
    \/ \E xml \in Xmls : AgentWrite(xml)
    \/ Sweep
    \/ Tick

ClientSpec == ClientInit /\ [][ClientNext]_vars

\* the router in front of the state API, the status of every request it
\* answers being recorded; time stands still
RouterNext ==
    \/ \E method \in Methods, path \in Paths, q \in Queries :
          HandleRequestAnswered(method, path, q)
    \/ \E rq \in BagToSet(reqs) : \E chunk \in NextChunks(rq.body) : PostData(rq, chunk)
    \/ \E rq \in BagToSet(reqs) : PostEnd(rq)

RouterSpec == Init /\ [][RouterNext]_vars

\* the state after the module is loaded, in an environment where any of the
\* model's ports may be in use by another process or refuse the bind
ListenerInit ==
    /\ stateStore = <<>>
    /\ clock = 0
    /\ reqs = EmptyBag
    /\ epochWrites = [s \in Sessions |-> 0]
    /\ seen = [s \in Sessions |-> 0]
    /\ lastWrite = [s \in Sessions |-> NoWrite]
    /\ server = 0
    /\ serverPort = DefaultPort
    /\ servers = <<>>
    /\ tickQueue = <<>>
    /\ calls = <<>>
    /\ inUse \in SUBSET Ports
    /\ denied \in SUBSET (Ports \ inUse)
    /\ startedPort = 0
    /\ handled = NoRequest
    /\ pageSession = ""
    /\ currentVersion = 0
    /\ isDrawioReady = FALSE
    /\ pendingXml = NULL
    /\ lastLoadedXml = NULL
    /\ fetches = EmptyBag
    /\ toSurface = <<>>
    /\ fromSurface = <<>>
    /\ surfaceXml = ""
    /\ surfaceOrigin = "blank"
    /\ initSent = FALSE
    /\ maxApplied = 0
    /\ owed = FALSE

ListenerNext ==
    \/ \E port \in Ports : StartHttpServer(port)
    \/ OnListening
    \/ OnError
    \/ StopHttpServer

ListenerSpec == ListenerInit /\ [][ListenerNext]_vars

(***************************************************************************)
(* Properties of the session store and the state API, checked under Spec.  *)
(* A response is not part of the state: the response to a request is what  *)
(* GetOutcome and PostOutcome compute in the state the handler runs in.    *)
(***************************************************************************)
\* the step is the 'end' handler of the in-flight request rq
EndStep(rq) == reqs' = reqs (-) SetToBag({rq})

\* the body is a complete JSON text
IsJsonText(body) ==
    \/ Len(body) = 2 /\ body[1][1] = "{sid" /\ body[2][1] = ",xml}"
    \/ Len(body) = 1 /\ body[1][1] \in {"{xml}", "null"}

\* the body is a JSON object with a sessionId key
HasSessionIdKey(body) == IsJsonText(body) /\ body[1][1] = "{sid"

\* C1: for a session with no record, under every interleaving of POST
\* requests and their body chunks, the k-th write applied to the session
\* returns version k: the version the latest write returned equals the
\* number of writes applied since the session last had no record, so the
\* versions returned are 1, 2, 3, ... and no two of them are equal.
C1_KthWriteReturnsK ==
    \A s \in Sessions :
        /\ lastWrite[s].set => lastWrite[s].version = epochWrites[s]
        /\ epochWrites[s] > 0 => lastWrite[s].set

\* three writes were applied to s1 while another request for s1 has its
\* first chunk in
W_C1_ThreeWritesOverlapping ==
    /\ epochWrites["s1"] = 3
    /\ lastWrite["s1"].version = 3
    /\ \E rq \in BagToSet(reqs) : rq.body = <<ChunkH("s1")>>

\* C2: over writes, reads and expiry sweeps, the version observed for a
\* session (by write results and by GET responses with a non-zero version)
\* never decreases, never skips a value, and increases by exactly one per
\* write.
CE_C2_ObservedVersionMonotone ==
    [][\A s \in Sessions :
          /\ seen'[s] >= seen[s]
          /\ seen'[s] <= seen[s] + 1
          /\ (lastWrite'[s].set /\ lastWrite'[s] # lastWrite[s])
                => seen'[s] = seen[s] + 1]_vars

\* C3: after a write of the string X to session S returned version v, a GET
\* for S with no write or eviction in between returns xml = X and
\* version = v, for every string X, the empty string included.
CE_C3_ReadReturnsWhatWasWritten ==
    \A s \in Sessions :
        (lastWrite[s].set /\ lastWrite[s].xml \in Xmls) =>
            LET r == GetOutcome(stateStore, s) IN
            /\ r.status = 200
            /\ r.xml = lastWrite[s].xml
            /\ r.version = lastWrite[s].version

\* C4 as stated: a POST whose body is not valid JSON is answered 400
\* "Invalid JSON", one whose body has no sessionId is answered 400
\* "sessionId required", both leave the store as it was, and only a write
\* answered with success assigns a version.
CE_C4_RejectedPostAsStated ==
    [][\A rq \in BagToSet(reqs) :
          EndStep(rq) =>
            LET out == PostOutcome(stateStore, rq.body, Now) IN
            /\ ~IsJsonText(rq.body) =>
                  /\ out.resp.status = 400
                  /\ out.resp.error = "Invalid JSON"
                  /\ stateStore' = stateStore
            /\ (IsJsonText(rq.body) /\ ~HasSessionIdKey(rq.body)) =>
                  /\ out.resp.status = 400
                  /\ out.resp.error = "sessionId required"
                  /\ stateStore' = stateStore
            /\ stateStore' # stateStore => out.resp.status = 200]_vars

\* the step assigns a version to session s
AssignsVersion(s) ==
    /\ s \in DOMAIN stateStore'
    /\ s \notin DOMAIN stateStore \/ stateStore'[s].version # stateStore[s].version

\* C4, amended: a POST whose body is not valid JSON, or is the JSON text
\* null, is answered 400 "Invalid JSON"; one whose body is any other JSON
\* text with no sessionId, or with an empty one, is answered 400
\* "sessionId required"; both leave the store exactly as it was.  And a
\* version is assigned only by the 'end' handler of a POST that is answered
\* 200 with that version.
C4_RejectedPostLeavesStore ==
    [][/\ \A rq \in BagToSet(reqs) :
            EndStep(rq) =>
              LET out == PostOutcome(stateStore, rq.body, Now) IN
              /\ (~IsJsonText(rq.body) \/ rq.body = <<ChunkN>>) =>
                    /\ out.resp.status = 400
                    /\ out.resp.error = "Invalid JSON"
                    /\ stateStore' = stateStore
              /\ (IsJsonText(rq.body) /\ rq.body # <<ChunkN>>
                    /\ (~HasSessionIdKey(rq.body) \/ rq.body[1][2] = "")) =>
                    /\ out.resp.status = 400
                    /\ out.resp.error = "sessionId required"
                    /\ stateStore' = stateStore
       /\ \A s \in Sessions \cup {"", NULL, UNDEFINED} :
            AssignsVersion(s) =>
              \E rq \in BagToSet(reqs) :
                /\ EndStep(rq)
                /\ PostOutcome(stateStore, rq.body, Now).resp
                     = WriteResp(s, stateStore'[s].version)]_vars

\* the store holds a record, and requests with the JSON text null and with
\* a truncated text have received their whole bodies: their 'end' handlers
\* are the next steps
W_C4_RejectionsDue ==
    /\ "s1" \in DOMAIN stateStore
    /\ \E rq \in BagToSet(reqs) : rq.body = <<ChunkN>>
    /\ \E rq \in BagToSet(reqs) : rq.body = <<ChunkH("s2")>>

\* a session is older than the TTL at Date.now()
OlderThanTtl(state) == state.lastUpdated < Now - SESSION_TTL

\* C5: a run of the expiry sweep at time now leaves no record of a session
\* whose last write is older than now minus the TTL, and leaves the record
\* of every other session in place with xml, version and lastUpdated
\* unchanged.  Stated of the result of the sweep in every reachable state,
\* and of every step that removes a record.
C5_SweepEvictsExactlyTheExpired ==
    /\ [](LET after == cleanupExpiredSessions(stateStore, Now) IN
          \A s \in DOMAIN stateStore :
              IF OlderThanTtl(stateStore[s])
              THEN s \notin DOMAIN after
              ELSE s \in DOMAIN after /\ after[s] = stateStore[s])
    /\ [][DOMAIN stateStore' # DOMAIN stateStore /\ DOMAIN stateStore' \subseteq DOMAIN stateStore
            => \A s \in DOMAIN stateStore :
                  IF OlderThanTtl(stateStore[s])
                  THEN s \notin DOMAIN stateStore'
                  ELSE s \in DOMAIN stateStore' /\ stateStore'[s] = stateStore[s]]_vars

\* a sweep has evicted s1, and s2, exactly as old as the TTL, is still there
W_C5_EvictedAndSurvivor ==
    /\ "s1" \notin DOMAIN stateStore
    /\ seen["s1"] > 0
    /\ "s2" \in DOMAIN stateStore
    /\ stateStore["s2"].lastUpdated = Now - SESSION_TTL

\* the step is a successful write to session s
WriteStep(s) ==
    \E rq \in BagToSet(reqs) :
        /\ EndStep(rq)
        /\ PostOutcome(stateStore, rq.body, Now).wrote
        /\ PostOutcome(stateStore, rq.body, Now).resp.session = s

\* C16: a successful write to a session sets its lastUpdated to the time of
\* the write, and no other request changes the record of the session: GET
\* requests, page and health requests, rejected POSTs and writes to other
\* sessions leave its xml, version and lastUpdated as they were, so a read
\* never postpones the session's expiry.  The only other step that touches
\* a record is the sweep, which removes an expired one.
C16_LastUpdatedOnlyByWrite ==
    [][\A s \in Sessions :
          IF WriteStep(s)
          THEN /\ s \in DOMAIN stateStore'
               /\ stateStore'[s].lastUpdated = Now
          ELSE /\ s \in DOMAIN stateStore' => s \in DOMAIN stateStore
               /\ (s \in DOMAIN stateStore /\ s \in DOMAIN stateStore')
                     => /\ stateStore'[s] = stateStore[s]
                        /\ Expired(stateStore'[s], Now') = Expired(stateStore[s], Now')
               /\ (s \in DOMAIN stateStore /\ s \notin DOMAIN stateStore')
                     => Expired(stateStore[s], Now)]_vars

\* s1 was written twice, the last time one TTL ago, was read since, and s2
\* was written now: s1 still carries the time of its own last write
W_C16_ReadAndOtherWriteSince ==
    /\ "s1" \in DOMAIN stateStore /\ "s2" \in DOMAIN stateStore
    /\ stateStore["s1"].version = 2
    /\ stateStore["s1"].lastUpdated = Now - SESSION_TTL
    /\ stateStore["s2"].lastUpdated = Now
    /\ seen["s1"] = 2 /\ seen["s2"] = 1

(***************************************************************************)
(* Properties of the router, checked under RouterSpec.                     *)
(***************************************************************************)
\* the statuses the routing table allows for (method, path); 0 stands for
\* a POST the state API has not answered yet
TableStatuses(method, path) ==
    IF method = "OPTIONS" THEN {204}
    ELSE IF method = "GET" /\ path \in PagePaths THEN {200}
    ELSE IF path \in StatePaths
    THEN IF method \in {"GET", "POST"} THEN {0, 200, 400} ELSE {405}
    ELSE IF method = "GET" /\ path \in HealthPaths THEN {200}
    ELSE {404}

\* C11: the status of a response is the function of (method, path) the
\* routing table gives: OPTIONS on any path 204; GET on a page path 200; GET
\* and POST on a state path whatever the state API answers, any other
\* method there 405; GET on a health path 200; and every other combination
\* 404.
CE_C11_StatusByRoutingTable ==
    handled # NoRequest => handled.status \in TableStatuses(handled.method, handled.path)

(***************************************************************************)
(* Properties of the listener, checked under ListenerSpec.                 *)
(***************************************************************************)
Last(seq) == seq[Len(seq)]

\* the ports a call tried are pref, pref + 1, ... in this order
TriedInOrder(k) == \A i \in DOMAIN k.tried : k.tried[i] = k.pref + i - 1

\* C6 as stated: a call of start(preferredPort) made while preferredPort is
\* in use tries preferredPort, preferredPort + 1, ... in increasing order
\* without skipping, never binds above the ceiling, and either resolves with
\* a bound port p, preferredPort < p <= ceiling, or rejects with the "no
\* available ports in range" error.
CE_C6_LadderAsStated ==
    \A c \in DOMAIN calls :
        LET k == calls[c] IN
        k.inUseAtCall =>
            /\ k.tried # <<>>
            /\ TriedInOrder(k)
            /\ \A i \in DOMAIN k.tried : k.tried[i] <= MAX_PORT
            /\ k.outcome = "resolved" =>
                  /\ k.port = Last(k.tried)
                  /\ k.pref < k.port /\ k.port <= MAX_PORT
                  /\ k.boundAtSettle
            /\ k.outcome = "rejected" => k.error = NoPortsError

\* C6, amended: a call of start(preferredPort) made while the module holds
\* no server and preferredPort is in use tries preferredPort,
\* preferredPort + 1, ... in increasing order without skipping; it binds no
\* port above the ceiling except preferredPort itself, and then no other;
\* if it resolves, it resolves with the last port tried, a port p bound by
\* the module with preferredPort < p <= ceiling; if it rejects, it rejects
\* either with the "no available ports in range" error, the last port tried
\* being at or above the ceiling, or with the error of a bind that failed
\* otherwise than by address-in-use.
C6_LadderFromNotStarted ==
    \A c \in DOMAIN calls :
        LET k == calls[c] IN
        (k.inUseAtCall /\ ~k.immediate) =>
            /\ k.tried # <<>>
            /\ TriedInOrder(k)
            /\ \A i \in DOMAIN k.tried : k.tried[i] <= MAX_PORT \/ Len(k.tried) = 1
            /\ k.outcome = "resolved" =>
                  /\ k.port = Last(k.tried)
                  /\ k.pref < k.port /\ k.port <= MAX_PORT
                  /\ k.boundAtSettle
            /\ k.outcome = "rejected" =>
                  \/ k.error = NoPortsError /\ Last(k.tried) >= MAX_PORT
                  \/ k.error = "EACCES" /\ Last(k.tried) \in denied

\* a call found two ports in use and resolved with the ceiling
W_C6_ResolvedAtCeiling ==
    \E c \in DOMAIN calls :
        /\ calls[c].inUseAtCall /\ ~calls[c].immediate
        /\ calls[c].outcome = "resolved"
        /\ calls[c].tried = <<MAX_PORT - 2, MAX_PORT - 1, MAX_PORT>>
        /\ calls[c].port = MAX_PORT

\* an event is queued whose handler settles call c or carries its ladder on
CanProgress(c) ==
    \E j \in DOMAIN tickQueue :
        LET s == servers[tickQueue[j]] IN
        /\ s.call = c
        /\ s.event = "error" \/ (s.event = "listening" /\ s.held)

\* C7: every call of start settles after finitely many bind attempts, also
\* when stop is called while it negotiates.  A call settles only in the
\* 'listening' or 'error' handler of a server of its own ladder, so a
\* pending call with no such event queued stays pending for ever.
CE_C7_PendingCallCanSettle ==
    \A c \in DOMAIN calls : calls[c].outcome = "pending" => CanProgress(c)

\* C8: when a bind fails with an error other than address-in-use, the call
\* rejects with that error in the handler of the error, the failed port
\* being the last it tried, and it makes no bind attempt afterwards.
C8_OtherErrorRejectsAtOnce ==
    /\ [](\A i \in DOMAIN servers :
            LET s == servers[i] IN
            (s.event = "none" /\ s.err \notin {"", "EADDRINUSE"}) =>
                /\ calls[s.call].outcome = "rejected"
                /\ calls[s.call].error = s.err
                /\ Last(calls[s.call].tried) = s.port)
    /\ [][\A c \in DOMAIN calls :
            (calls[c].outcome = "rejected" /\ calls[c].error # NoPortsError) =>
                /\ calls'[c] = calls[c]
                /\ \A i \in DOMAIN servers' : i \notin DOMAIN servers => servers'[i].call # c]_vars

\* a call found its preferred port in use, the next one refused the bind
\* with EACCES, and the call rejected with EACCES
W_C8_RejectedAfterRetry ==
    \E c \in DOMAIN calls :
        /\ calls[c].outcome = "rejected"
        /\ calls[c].error = "EACCES"
        /\ Len(calls[c].tried) = 2

\* C9: once a start has resolved with bound port p and stop has not been
\* called since, getServerPort reports p, and a further start with any
\* preferred port resolves with p at once without a bind.
CE_C9_StartIdempotent ==
    /\ startedPort # 0 => getServerPort = startedPort
    /\ \A c \in DOMAIN calls :
          calls[c].startedAtCall # 0 =>
              /\ calls[c].outcome = "resolved"
              /\ calls[c].port = calls[c].startedAtCall
              /\ calls[c].tried = <<>>

\* listeners of the module that hold a port
Bound == {i \in DOMAIN servers : servers[i].held}

\* servers of the module whose queued 'error' will bind the next port
Rebinding ==
    {i \in DOMAIN servers :
        /\ servers[i].event = "error"
        /\ Retryable(servers[i].err)
        /\ ~AtCeiling(servers[i].port)}

\* C10: under every interleaving of start and stop at most one listener of
\* the module is bound, and while the module holds no server none of its
\* listeners is bound or about to bind.
CE_C10_NoListenerLeaked ==
    /\ Cardinality(Bound) <= 1
    /\ server = 0 => Bound = {} /\ Rebinding = {}

\* C19: a call of start resolves with port p only if a listener of the
\* module is bound on p when it resolves; so a call made after a rejected
\* one, or while an earlier one still negotiates, does not resolve with a
\* port no listener of the module holds.
CE_C19_ResolvedOnlyIfBound ==
    \A c \in DOMAIN calls :
        calls[c].outcome = "resolved" => calls[c].boundAtSettle

(***************************************************************************)
(* Properties of the page's script, checked under ClientSpec.              *)
(***************************************************************************)
\* the step handles the response r of a fetch, or loses it
ResponseStep(r) == fetches' = fetches (-) SetToBag({r})

\* the step is pollState accepting the response r: it passes the version
\* test, and its xml is loaded or staged
AcceptStep(r) ==
    /\ r.kind = "pollResp"
    /\ ResponseStep(r)
    /\ currentVersion' # currentVersion

\* the step is handleDrawioMessage on the message at the head of the queue
MessageStep == fromSurface # <<>> /\ fromSurface' = Tail(fromSurface)

\* the step calls fetch for a push of xml
PushesStep(xml) == fetches' = fetches (+) SetToBag({PushReq(xml)})

\* C12: until init is handled no load is sent to the surface, and every
\* XML a poll accepts is staged in the one pending slot, a later one
\* overwriting the earlier; the step that handles init makes the page
\* Ready, empties the slot, and posts exactly one load carrying the staged
\* XML if there is one and no load if there is none; once Ready, the slot
\* stays empty.
C12_ReadinessGating ==
    /\ [](~isDrawioReady =>
            /\ toSurface = <<>>
            /\ surfaceOrigin # "loaded"
            /\ lastLoadedXml = NULL)
    /\ [](isDrawioReady => pendingXml = NULL)
    /\ [][(~isDrawioReady /\ isDrawioReady') =>
            /\ MessageStep /\ Head(fromSurface).event = "init"
            /\ pendingXml' = NULL
            /\ IF pendingXml = NULL
               THEN toSurface' = <<>> /\ lastLoadedXml' = NULL
               ELSE toSurface' = <<pendingXml>> /\ lastLoadedXml' = pendingXml]_vars
    /\ [][~isDrawioReady' =>
            /\ \A r \in BagToSet(fetches) : AcceptStep(r) => pendingXml' = r.xml
            /\ pendingXml' # pendingXml =>
                  \E r \in BagToSet(fetches) : AcceptStep(r) /\ ~Falsy(r.xml)]_vars

\* version 1 is staged, the response of a later poll carries version 2, and
\* the init message is next in the queue
W_C12_StagedBeforeInit ==
    /\ ~isDrawioReady
    /\ pendingXml = "A"
    /\ currentVersion = 1
    /\ PollResp("B", 2) \in BagToSet(fetches)
    /\ fromSurface = <<Msg("init", NULL, FALSE)>>

\* C13: on a save, autosave or export event that carries XML, the page of a
\* session pushes that XML if and only if it differs from the XML the page
\* last loaded.
CE_C13_PushIffDiffers ==
    [][(/\ MessageStep
        /\ Head(fromSurface).event \in {"save", "autosave", "export"}
        /\ ~Falsy(Head(fromSurface).xml)
        /\ ~Falsy(pageSession))
          => (PushesStep(Head(fromSurface).xml)
                <=> Head(fromSurface).xml # lastLoadedXml)]_vars

\* C14: the page loads the XML of a poll response only when its version is
\* greater than the last version the page has seen and xml is present, and
\* never when the version is lower than or equal to one the page has
\* already loaded or pushed.
CE_C14_NoStaleOrRepeatedLoad ==
    [][\A r \in BagToSet(fetches) :
          AcceptStep(r) =>
            /\ r.version > currentVersion
            /\ ~Falsy(r.xml)
            /\ r.version > maxApplied]_vars

\* no push is in flight and no message of the surface waits: without a
\* later edit nothing but polls will reach the page
Quiet ==
    /\ fromSurface = <<>>
    /\ \A r \in BagToSet(fetches) : r.kind \notin {"pushReq", "pushResp"}

\* C15: when the agent has written X to the page's session while the page
\* was Ready, and no write followed, the page eventually loads X.  In a
\* quiet state the store's record and the page's currentVersion can change
\* only by a poll, and a poll response is loaded only if it passes the
\* test of pollState; so as long as the write is owed, the record must pass
\* that test.
CE_C15_OwedWriteWillLoad ==
    (owed /\ Quiet /\ pageSession \in DOMAIN stateStore) =>
        LET out == GetOutcome(stateStore, pageSession) IN
        PollAccepts(PollResp(out.xml, out.version))

\* C17: a save or autosave event that reports back a document the page
\* loaded into the surface, with no edit by the user since, causes no push.
CE_C17_NoEchoPush ==
    [][(/\ MessageStep
        /\ Head(fromSurface).event \in {"save", "autosave"}
        /\ Head(fromSurface).echo)
          => fetches' = fetches]_vars

\* C18: the page's currentVersion never decreases.
CE_C18_CurrentVersionMonotone ==
    [][currentVersion' >= currentVersion]_vars

====
